---- MODULE Spec2Model ----
(***************************************************************************)
(* Model of nurl's generic fetch-descriptor protocol:                      *)
(*   src/src/simple.rs       SimpleFetcher and the four Simple*Fetcher     *)
(*                           traits (get_values, resolve_submodules,       *)
(*                           fetch_rev, fetch, write_nix, write_json)      *)
(*   src/src/fetcher/mod.rs  impl_fetcher! (fetch_nix, fetch_hash,         *)
(*                           fetch_json)                                   *)
(*   src/src/fetcher/github.rs  the FetchFromGitHub backend                *)
(*                                                                         *)
(* Option<T> is a sequence of length <= 1: None == <<>>, Some(x) == <<x>>. *)
(* A string that the code inspects (a URL path segment, whose ".git"       *)
(* suffix is stripped) is a sequence of tokens; a string that the code     *)
(* only copies is a TLA+ string.                                           *)
(***************************************************************************)
EXTENDS Integers, Sequences, FiniteSets, TLC

VARIABLES
    b,          \* the backend: the implementor's associated consts and capabilities
    mode,       \* which entry point runs: "nix" | "hash" | "json"
    url,        \* url.path_segments(), a sequence of segments
    revIn,      \* rev: Option<String>
    subIn,      \* submodules: Option<bool>
    args,       \* args: Vec<(String, String)>, raw extra arguments
    args_str,   \* args_str: Vec<(String, String)>, string extra arguments
    overwrites, \* write_nix's overwrites: FxHashMap<String, String>
    jovw,       \* write_json's overwrites: Vec<(String, String)>
    jovw_str,   \* write_json's overwrites_str: Vec<(String, String)>
    pc,         \* position of the entry point
    values,     \* Option<[&str; N]> returned by get_values
    rev,        \* the resolved revision
    flag,       \* the resolved submodules flag
    hash,       \* the hash returned by fetch
    calls,      \* capabilities invoked so far, in order
    err,        \* the error returned, <<>> while there is none
    stages,     \* pipeline stages entered so far, in order
    npc,        \* position inside write_nix
    fi,         \* write_nix: index of the next canonical field
    rem,        \* write_nix: the local `overwrites` map, shrinking
    out,        \* the sink of write_nix / fetch_hash: what was written, in order
    jpc,        \* position inside write_json
    json,       \* the sink of write_json: Option<document>
    runs        \* how many times get_values ran on url

vars == <<b, mode, url, revIn, subIn, args, args_str, overwrites, jovw, jovw_str,
          pc, values, rev, flag, hash, calls, err, stages, npc, fi, rem, out,
          jpc, json, runs>>

inputs == <<b, mode, url, revIn, subIn, args, args_str, overwrites, jovw, jovw_str>>

\* ------------------------------------------------------------------ bounds

MaxSegs == 3      \* path segments of a URL
MaxSegLen == 2    \* tokens of a path segment
MaxN == 2         \* arity of a backend
MaxArgs == 2      \* entries of each extra-argument list
MaxOvw == 2       \* entries of each write_json overwrite list
MaxRuns == 2      \* times get_values is run on one URL

\* ----------------------------------------------------------------- helpers

None == <<>>
Some(x) == <<x>>
IsSome(o) == Len(o) = 1
Unwrap(o) == o[1]

Min(x, y) == IF x < y THEN x ELSE y

SeqsUpTo(S, n) == UNION {[1..k -> S] : k \in 0..n}

Pair(k, v) == [key |-> k, value |-> v]

KeysOf(s) == {s[i].key : i \in DOMAIN s}

\* ---------------------------------------------------------------- backends

Backend(name, kind, keys, hostKey, revKey, hostv, groupv, subKey, subDefault, autoRev) ==
    [NAME |-> name, kind |-> kind, N |-> Len(keys), KEYS |-> keys,
     HOST_KEY |-> hostKey, REV_KEY |-> revKey, HASH_KEY |-> "hash",
     host |-> hostv, group |-> groupv,
     SUBMODULES_KEY |-> subKey, SUBMODULES_DEFAULT |-> subDefault,
     autoRev |-> autoRev]

\* FetchFromGitHub(pub Option<&str>): a flake fetcher of arity 2 that overrides
\* HOST_KEY, host() and fetch_rev and keeps every other default.
FetchFromGitHub(hostv) ==
    Backend("fetchFromGitHub", "flake", <<"owner", "repo">>, "githubBase", "rev",
            hostv, None, None, FALSE, TRUE)

\* The other implementors differ only in the associated consts and in which
\* Simple*Fetcher trait they implement.
KEY_NAMES == <<"owner", "repo", "path", "ref">>
KeysOfArity(n) == SubSeq(KEY_NAMES, 1, n)

Kinds == {"fod", "flake", "git", "url"}

\* ------------------------------------------------------- identifier extraction

GIT == ".git"

\* str::strip_suffix(".git").unwrap_or(s)
strip_suffix_git(s) ==
    IF Len(s) >= 1 /\ s[Len(s)] = GIT THEN SubSeq(s, 1, Len(s) - 1) ELSE s

\* url.path_segments().chunks(N).into_iter().next(): None on an empty
\* iterator, else the first chunk, of up to N segments.
first_chunk(u, n) ==
    IF Len(u) = 0 THEN None ELSE Some(SubSeq(u, 1, Min(n, Len(u))))

\* get_values with the suffix stripped from every identifier
get_values_strip_all(bk, u) ==
    LET c == first_chunk(u, bk.N) IN
    IF ~IsSome(c) THEN None
    ELSE IF Len(Unwrap(c)) # bk.N THEN None
    ELSE Some([i \in 1..bk.N |-> strip_suffix_git(Unwrap(c)[i])])

get_values(bk, u) ==
    LET c == first_chunk(u, bk.N) IN
    IF ~IsSome(c) THEN None
    ELSE IF Len(Unwrap(c)) # bk.N THEN None       \* try_into().ok()?
    ELSE Some([Unwrap(c) EXCEPT ![bk.N] = strip_suffix_git(@)])

\* A string the code only copies, as a one-token string.
V(s) == <<s>>

\* ------------------------------------------------------------ submodules flag

Xor(x, y) == (x /\ ~y) \/ (~x /\ y)

\* resolve_submodules that ignores the backend's default
resolve_submodules_no_default(bk, submodules) ==
    IF IsSome(submodules) THEN Unwrap(submodules) ELSE FALSE

\* submodules.map_or(false, |submodules| submodules ^ Self::SUBMODULES_DEFAULT)
resolve_submodules(bk, submodules) ==
    IF IsSome(submodules) THEN Xor(Unwrap(submodules), bk.SUBMODULES_DEFAULT) ELSE FALSE

\* ---------------------------------------------------------- hash strategies

\* One invocation of a hashing capability. `submodules` is the flag the
\* strategy was given; `recurse` is git_prefetch's fetch_submodules argument.
Call(cap, r, submodules, recurse) ==
    [cap |-> cap, rev |-> r, submodules |-> submodules, recurse |-> recurse]

HashCaps == {"fetch_fod", "flake_prefetch", "git_prefetch", "url_prefetch"}

\* SimpleFodFetcher::fetch
fetch_fod_only(bk, r, submodules, a, a_str) ==
    Call("fetch_fod", r, submodules, FALSE)

\* SimpleFlakeFetcher::fetch
fetch_flake(bk, r, submodules, a, a_str) ==
    IF a = <<>> /\ a_str = <<>>
    THEN Call("flake_prefetch", r, submodules, FALSE)
    ELSE Call("fetch_fod", r, submodules, FALSE)

\* SimpleGitFetcher::fetch with the submodules test before the extra-argument test
fetch_git_submodules_first(bk, r, submodules, a, a_str) ==
    IF submodules
    THEN Call("git_prefetch", r, submodules, ~bk.SUBMODULES_DEFAULT)
    ELSE IF a = <<>> /\ a_str = <<>>
         THEN Call("flake_prefetch", r, submodules, FALSE)
         ELSE Call("fetch_fod", r, submodules, FALSE)

\* SimpleGitFetcher::fetch
fetch_git(bk, r, submodules, a, a_str) ==
    IF a = <<>> /\ a_str = <<>>
    THEN IF submodules
         THEN Call("git_prefetch", r, submodules, ~bk.SUBMODULES_DEFAULT)
         ELSE Call("flake_prefetch", r, submodules, FALSE)
    ELSE Call("fetch_fod", r, submodules, FALSE)

\* SimpleUrlFetcher::fetch that looks at the raw extra arguments only
fetch_url_ignores_args_str(bk, r, submodules, a, a_str) ==
    IF a = <<>>
    THEN Call("url_prefetch", r, submodules, FALSE)
    ELSE Call("fetch_fod", r, submodules, FALSE)

\* SimpleUrlFetcher::fetch
fetch_url(bk, r, submodules, a, a_str) ==
    IF a = <<>> /\ a_str = <<>>
    THEN Call("url_prefetch", r, submodules, FALSE)
    ELSE Call("fetch_fod", r, submodules, FALSE)

\* self.fetch(..), dispatched on the Simple*Fetcher trait the backend implements
fetch(bk, r, submodules, a, a_str) ==
    CASE bk.kind = "fod" -> fetch_fod_only(bk, r, submodules, a, a_str)
      [] bk.kind = "flake" -> fetch_flake(bk, r, submodules, a, a_str)
      [] bk.kind = "git" -> fetch_git(bk, r, submodules, a, a_str)
      [] bk.kind = "url" -> fetch_url(bk, r, submodules, a, a_str)

\* ------------------------------------------------------------ text serializer

BoolStr(x) == IF x THEN V("true") ELSE V("false")

\* One writeln! of write_nix: which statement wrote it, the key, the value and
\* whether the value stands between double quotes.
Line(slot, k, v, quoted) == [slot |-> slot, key |-> k, value |-> v, quoted |-> quoted]

\* A canonical field of write_nix: `has` says whether a computed value exists.
Field(slot, k, has, v, quoted) ==
    [slot |-> slot, key |-> k, has |-> has, value |-> v, quoted |-> quoted]

HostField(bk) ==
    <<Field("host", bk.HOST_KEY, IsSome(bk.host), IF IsSome(bk.host) THEN Unwrap(bk.host) ELSE <<>>, TRUE)>>

GroupField(bk) ==
    <<Field("group", "group", IsSome(bk.group), IF IsSome(bk.group) THEN Unwrap(bk.group) ELSE <<>>, TRUE)>>

KeyFields(bk, vals) ==
    [i \in 1..bk.N |-> Field("keys", bk.KEYS[i], TRUE, vals[i], TRUE)]

RevHashFields(bk, r, h) ==
    <<Field("rev", bk.REV_KEY, TRUE, r, TRUE), Field("hash", bk.HASH_KEY, TRUE, h, TRUE)>>

\* if let Some(key) = Self::SUBMODULES_KEY { .. }: without a key the whole
\* statement is skipped, with one the computed value is the boolean
\* !SUBMODULES_DEFAULT, written without quotes, and only when the flag is set.
SubmodulesField(bk, submodules) ==
    IF IsSome(bk.SUBMODULES_KEY)
    THEN <<Field("submodules", Unwrap(bk.SUBMODULES_KEY), submodules, BoolStr(~bk.SUBMODULES_DEFAULT), FALSE)>>
    ELSE <<>>

ArgFields(a) ==
    [i \in DOMAIN a |-> Field("args", a[i].key, TRUE, a[i].value, FALSE)]

ArgStrFields(a_str) ==
    [i \in DOMAIN a_str |-> Field("args_str", a_str[i].key, TRUE, a_str[i].value, TRUE)]

\* write_nix with the string extra arguments written before the raw ones
FieldsArgsStrFirst(bk, vals, r, h, submodules, a, a_str) ==
    HostField(bk) \o GroupField(bk) \o KeyFields(bk, vals) \o RevHashFields(bk, r, h)
        \o SubmodulesField(bk, submodules) \o ArgStrFields(a_str) \o ArgFields(a)

\* The statements of write_nix between the header and the trailing loop, in
\* program order.
Fields(bk, vals, r, h, submodules, a, a_str) ==
    HostField(bk) \o GroupField(bk) \o KeyFields(bk, vals) \o RevHashFields(bk, r, h)
        \o SubmodulesField(bk, submodules) \o ArgFields(a) \o ArgStrFields(a_str)

\* overwrites.remove(key)
Remove(m, k) == [x \in DOMAIN m \ {k} |-> m[x]]

\* A statement that writes the overwrite between double quotes
FieldLineQuotesOverwrite(f, m) ==
    IF f.key \in DOMAIN m THEN Some(Line(f.slot, f.key, m[f.key], f.quoted))
    ELSE IF f.has THEN Some(Line(f.slot, f.key, f.value, f.quoted))
    ELSE None

\* What one canonical statement writes: Some(line) or None.
FieldLine(f, m) ==
    IF f.key \in DOMAIN m THEN Some(Line(f.slot, f.key, m[f.key], FALSE))
    ELSE IF f.has THEN Some(Line(f.slot, f.key, f.value, f.quoted))
    ELSE None

\* ------------------------------------------------------------ JSON serializer

JStr(v) == [t |-> "string", type |-> "", value |-> v]
JBool(x) == [t |-> "bool", type |-> "", value |-> BoolStr(x)]
\* json!({"type": "nix", "value": value})
JNix(v) == [t |-> "object", type |-> "nix", value |-> v]

\* fetcher_args[key] = value
Assign(m, k, v) == [x \in DOMAIN m \cup {k} |-> IF x = k THEN v ELSE m[x]]

RECURSIVE AssignAll(_, _, _)
\* for (key, value) in pairs { fetcher_args[key] = wrap(value) }
AssignAll(m, pairs, raw) ==
    IF pairs = <<>> THEN m
    ELSE AssignAll(Assign(m, Head(pairs).key, IF raw THEN JNix(Head(pairs).value) ELSE JStr(Head(pairs).value)),
                   Tail(pairs), raw)

EmptyMap == [x \in {} |-> <<>>]

\* Value::from_iter(KEYS.zip(values).chain([(REV_KEY, rev), (HASH_KEY, hash)]))
JsonBase(bk, vals, r, h) ==
    AssignAll(EmptyMap, [i \in 1..bk.N |-> Pair(bk.KEYS[i], vals[i])] \o <<Pair(bk.REV_KEY, r), Pair(bk.HASH_KEY, h)>>, FALSE)

JsonHost(bk, m) == IF IsSome(bk.host) THEN Assign(m, bk.HOST_KEY, JStr(Unwrap(bk.host))) ELSE m

JsonGroup(bk, m) == IF IsSome(bk.group) THEN Assign(m, "group", JStr(Unwrap(bk.group))) ELSE m

JsonSubmodules(bk, submodules, m) ==
    IF submodules /\ IsSome(bk.SUBMODULES_KEY)
    THEN Assign(m, Unwrap(bk.SUBMODULES_KEY), JBool(~bk.SUBMODULES_DEFAULT))
    ELSE m

\* write_json with the overwrites applied before the extra arguments
fetcher_args_overwrites_first(bk, vals, r, h, submodules, a, a_str, ovw, ovw_str) ==
    LET m0 == JsonSubmodules(bk, submodules, JsonGroup(bk, JsonHost(bk, JsonBase(bk, vals, r, h))))
        m1 == AssignAll(m0, ovw, TRUE)
        m2 == AssignAll(m1, ovw_str, FALSE)
        m3 == AssignAll(m2, a, TRUE)
    IN AssignAll(m3, a_str, FALSE)

\* The `args` object of write_json's document.
fetcher_args(bk, vals, r, h, submodules, a, a_str, ovw, ovw_str) ==
    LET m0 == JsonSubmodules(bk, submodules, JsonGroup(bk, JsonHost(bk, JsonBase(bk, vals, r, h))))
        m1 == AssignAll(m0, a, TRUE)
        m2 == AssignAll(m1, a_str, FALSE)
        m3 == AssignAll(m2, ovw, TRUE)
    IN AssignAll(m3, ovw_str, FALSE)

\* json!({"fetcher": Self::NAME, "args": fetcher_args})
Document(bk, fa) == [fetcher |-> bk.NAME, args |-> fa]

\* ------------------------------------------------------------------- actions

REV_IN == V("abc123")
LATEST == V("latest")
HASH == V("sha256-resolved")

Fs == Fields(b, Unwrap(values), rev, hash, flag, args, args_str)

\* let values = &self.get_values(url).with_context(|| format!("failed to parse {url}"))?;
Extract ==
    /\ pc = "start"
    /\ stages' = Append(stages, "extract")
    /\ runs' = runs + 1
    /\ values' = get_values(b, url)
    /\ IF IsSome(values') THEN pc' = "extracted" /\ err' = err
                          ELSE pc' = "failed" /\ err' = <<"failed to parse">>
    /\ UNCHANGED <<inputs, rev, flag, hash, calls, npc, fi, rem, out, jpc, json>>

\* get_values called again on the same URL
ReExtract ==
    /\ pc = "extracted"
    /\ runs < MaxRuns
    /\ runs' = runs + 1
    /\ values' = get_values(b, url)
    /\ UNCHANGED <<inputs, pc, err, stages, rev, flag, hash, calls, npc, fi, rem, out, jpc, json>>

\* Some(rev) => rev
UseRev ==
    /\ pc = "extracted"
    /\ IsSome(revIn)
    /\ stages' = Append(stages, "resolve")
    /\ rev' = Unwrap(revIn)
    /\ pc' = "resolved"
    /\ UNCHANGED <<inputs, values, flag, hash, calls, err, npc, fi, rem, out, jpc, json, runs>>

\* A default fetch_rev that guesses a revision instead of failing
FetchRevGuesses ==
    /\ pc = "extracted"
    /\ ~IsSome(revIn)
    /\ ~b.autoRev
    /\ stages' = Append(stages, "resolve")
    /\ calls' = Append(calls, Call("fetch_rev", <<>>, FALSE, FALSE))
    /\ pc' = "resolved"
    /\ rev' = V("HEAD")
    /\ UNCHANGED <<inputs, values, flag, hash, err, npc, fi, rem, out, jpc, json, runs>>

\* None => self.fetch_rev(values)?, the default body: bail!
FetchRevUnsupported ==
    /\ pc = "extracted"
    /\ ~IsSome(revIn)
    /\ ~b.autoRev
    /\ stages' = Append(stages, "resolve")
    /\ calls' = Append(calls, Call("fetch_rev", <<>>, FALSE, FALSE))
    /\ pc' = "failed"
    /\ err' = <<b.NAME, "does not support fetching the latest revision">>
    /\ UNCHANGED <<inputs, values, rev, flag, hash, npc, fi, rem, out, jpc, json, runs>>

\* None => self.fetch_rev(values)?, overridden by the backend: a network call
FetchRev ==
    /\ pc = "extracted"
    /\ ~IsSome(revIn)
    /\ b.autoRev
    /\ stages' = Append(stages, "resolve")
    /\ calls' = Append(calls, Call("fetch_rev", <<>>, FALSE, FALSE))
    /\ \/ rev' = LATEST /\ pc' = "resolved" /\ err' = err
       \/ rev' = rev /\ pc' = "failed" /\ err' = <<"fetch_rev failed">>
    /\ UNCHANGED <<inputs, values, flag, hash, npc, fi, rem, out, jpc, json, runs>>

\* An entry point that writes the serializer's header before the hash is known
FetchWritesEarly ==
    /\ pc = "resolved"
    /\ stages' = Append(stages, "hash")
    /\ flag' = resolve_submodules(b, subIn)
    /\ calls' = Append(calls, fetch(b, rev, flag', args, args_str))
    /\ out' = Append(out, Line("open", b.NAME, <<>>, FALSE))
    /\ \/ /\ hash' = HASH
          /\ pc' = "write"
          /\ err' = err
          /\ npc' = IF mode = "nix" THEN "header" ELSE npc
          /\ jpc' = IF mode = "json" THEN "ready" ELSE jpc
       \/ /\ hash' = hash
          /\ pc' = "failed"
          /\ err' = <<"prefetch failed">>
          /\ UNCHANGED <<npc, jpc>>
    /\ UNCHANGED <<inputs, values, rev, fi, rem, json, runs>>

\* let submodules = self.resolve_submodules(submodules);
\* let hash = self.fetch(values, &rev, submodules, &args, &args_str, nixpkgs)?;
\* and, on success, the call of the entry point's serializer.
Fetch ==
    /\ pc = "resolved"
    /\ stages' = Append(stages, "hash")
    /\ flag' = resolve_submodules(b, subIn)
    /\ calls' = Append(calls, fetch(b, rev, flag', args, args_str))
    /\ \/ /\ hash' = HASH
          /\ pc' = "write"
          /\ err' = err
          /\ npc' = IF mode = "nix" THEN "header" ELSE npc
          /\ jpc' = IF mode = "json" THEN "ready" ELSE jpc
       \/ /\ hash' = hash
          /\ pc' = "failed"
          /\ err' = <<"prefetch failed">>
          /\ UNCHANGED <<npc, jpc>>
    /\ UNCHANGED <<inputs, values, rev, fi, rem, out, json, runs>>

\* fetch_hash: write!(out, "{}", hash)?; Ok(())
WriteHash ==
    /\ pc = "write"
    /\ mode = "hash"
    /\ stages' = Append(stages, "write")
    /\ \/ out' = Append(out, Line("hash-only", "", hash, FALSE)) /\ pc' = "done" /\ err' = err
       \/ out' = out /\ pc' = "failed" /\ err' = <<"io">>
    /\ UNCHANGED <<inputs, values, rev, flag, hash, calls, npc, fi, rem, jpc, json, runs>>

\* write_nix: let mut overwrites = overwrites; writeln!(out, "{} {{", Self::NAME)?;
NixHeader ==
    /\ npc = "header"
    /\ stages' = Append(stages, "write")
    /\ rem' = overwrites
    /\ fi' = 1
    /\ out' = Append(out, Line("open", b.NAME, <<>>, FALSE))
    /\ npc' = "fields"
    /\ UNCHANGED <<inputs, pc, values, rev, flag, hash, calls, err, jpc, json, runs>>

\* write_nix: the next of the statements for host, group, the keys, rev, hash,
\* submodules, each raw extra argument and each string extra argument
NixField ==
    /\ npc = "fields"
    /\ LET f == Fs[fi]
           line == FieldLine(f, rem)
       IN /\ out' = IF IsSome(line) THEN Append(out, Unwrap(line)) ELSE out
          /\ rem' = Remove(rem, f.key)
    /\ fi' = fi + 1
    /\ npc' = IF fi' > Len(Fs) THEN "tail" ELSE "fields"
    /\ UNCHANGED <<inputs, pc, values, rev, flag, hash, calls, err, stages, jpc, json, runs>>

\* write_nix: for (key, value) in overwrites { writeln!(..)? }, in the
\* iteration order of the hash map
NixTail ==
    /\ npc = "tail"
    /\ \E k \in DOMAIN rem :
          /\ out' = Append(out, Line("overwrites", k, rem[k], FALSE))
          /\ rem' = Remove(rem, k)
    /\ UNCHANGED <<inputs, pc, values, rev, flag, hash, calls, err, stages, npc, fi, jpc, json, runs>>

\* write_nix: write!(out, "{indent}}}")?; Ok(())
NixClose ==
    /\ npc = "tail"
    /\ DOMAIN rem = {}
    /\ out' = Append(out, Line("close", "", <<>>, FALSE))
    /\ npc' = "done"
    /\ UNCHANGED <<inputs, pc, values, rev, flag, hash, calls, err, stages, fi, rem, jpc, json, runs>>

\* Whether the next statement of write_nix writes to the sink.
WillWrite ==
    \/ npc = "header"
    \/ npc = "tail"
    \/ npc = "fields" /\ IsSome(FieldLine(Fs[fi], rem))

\* write_nix: a writeln!(..)? or write!(..)? whose sink returns an error
NixWriteFails ==
    /\ WillWrite
    /\ stages' = IF npc = "header" THEN Append(stages, "write") ELSE stages
    /\ npc' = "failed"
    /\ err' = <<"io">>
    /\ UNCHANGED <<inputs, pc, values, rev, flag, hash, calls, fi, rem, out, jpc, json, runs>>

\* write_json: serde_json::to_writer(out, &json!({..}))?; Ok(())
\* (a failed to_writer is taken to have written nothing)
WriteJson ==
    /\ jpc = "ready"
    /\ stages' = Append(stages, "write")
    /\ \/ /\ json' = Some(Document(b, fetcher_args(b, Unwrap(values), rev, hash, flag, args, args_str, jovw, jovw_str)))
          /\ jpc' = "done"
          /\ err' = err
       \/ /\ json' = json
          /\ jpc' = "failed"
          /\ err' = <<"io">>
    /\ UNCHANGED <<inputs, pc, values, rev, flag, hash, calls, npc, fi, rem, out, runs>>

\* ----------------------------------------------------------- specifications

NoBackend(n) ==
    Backend("fetcher", "fod", KeysOfArity(n), "domain", "rev", None, None, None, FALSE, FALSE)

Idle ==
    /\ rev = <<>> /\ flag = FALSE /\ hash = <<>>
    /\ calls = <<>> /\ err = <<>> /\ stages = <<>>
    /\ npc = "idle" /\ fi = 0 /\ rem = EmptyMap /\ out = <<>>
    /\ jpc = "idle" /\ json = None /\ runs = 0

\* --- get_values alone

Tokens == {"a", GIT}
Segments == SeqsUpTo(Tokens, MaxSegLen)

InitExtract ==
    /\ b \in {NoBackend(n) : n \in 1..MaxN}
    /\ url \in SeqsUpTo(Segments, MaxSegs)
    /\ mode = "hash" /\ revIn = None /\ subIn = None
    /\ args = <<>> /\ args_str = <<>>
    /\ overwrites = EmptyMap /\ jovw = <<>> /\ jovw_str = <<>>
    /\ pc = "start" /\ values = None
    /\ Idle

NextExtract == Extract \/ ReExtract

SpecExtract == InitExtract /\ [][NextExtract]_vars

\* --- the entry points fetch_nix, fetch_hash and fetch_json

Modes == {"nix", "hash", "json"}

SubProfiles == {<<None, FALSE>>, <<Some("fetchSubmodules"), FALSE>>, <<Some("fetchSubmodules"), TRUE>>}

PipeBackends ==
    {FetchFromGitHub(None), FetchFromGitHub(Some(V("ghe.example")))}
    \cup {Backend("fetcher", k, KeysOfArity(2), "domain", "rev", None, None, sp[1], sp[2], ar) :
            k \in Kinds, sp \in SubProfiles, ar \in BOOLEAN}

PipeUrls ==
    {<<V("octocat")>>,
     <<V("octocat"), <<"hello-world", GIT>>>>,
     <<V("octocat"), V("hello-world"), V("tree")>>}

PipeArgs == {<<>>, <<Pair("sparseCheckout", V("[src]"))>>}
PipeArgsStr == {<<>>, <<Pair("name", V("source"))>>}
RevOverwrite ==
    [x \in {"rev", "postFetch"} |-> IF x = "rev" THEN V("builtins.fetchGitRev") ELSE V("''")]

Init ==
    /\ b \in PipeBackends
    /\ mode \in Modes
    /\ url \in PipeUrls
    /\ revIn \in {None, Some(REV_IN)}
    /\ subIn \in {None, Some(TRUE), Some(FALSE)}
    /\ args \in PipeArgs
    /\ args_str \in PipeArgsStr
    /\ overwrites \in IF mode = "nix" THEN {EmptyMap, RevOverwrite} ELSE {EmptyMap}
    /\ jovw \in IF mode = "json" THEN {<<>>, <<Pair("rev", V("builtins.fetchGitRev"))>>} ELSE {<<>>}
    /\ jovw_str = <<>>
    /\ pc = "start" /\ values = None
    /\ Idle

Next ==
    \/ Extract
    \/ UseRev
    \/ FetchRevUnsupported
    \/ FetchRev
    \/ Fetch
    \/ WriteHash
    \/ NixHeader
    \/ NixField
    \/ NixTail
    \/ NixClose
    \/ NixWriteFails
    \/ WriteJson

Spec == Init /\ [][Next]_vars

\* --- write_nix alone, on every combination of the inputs below

\* FetchFromGitHub without and with a host, a backend with host, group and a
\* submodules key, and one with a submodules key whose default is true.
SerBackends ==
    {FetchFromGitHub(None),
     FetchFromGitHub(Some(V("ghe.example"))),
     Backend("fetcher", "fod", KeysOfArity(2), "domain", "rev", Some(V("example.org")), Some(V("grp")), Some("fetchSubmodules"), FALSE, FALSE),
     Backend("fetcher", "git", KeysOfArity(2), "domain", "rev", None, None, Some("fetchSubmodules"), TRUE, FALSE)}

\* Extra arguments: the key of a computed field, and a key of no computed
\* field that both lists may hold.
RawArgPairs == {Pair("rev", V("a-rev")), Pair("sparseCheckout", V("[\"src\"]"))}
StrArgPairs == {Pair("sparseCheckout", V("s-sparse"))}

OvKeys(bk) == {bk.HOST_KEY, "group", bk.REV_KEY, "fetchSubmodules", "sparseCheckout", "postFetch"}
OvValue(k) == <<"ov", k>>
OverwriteMaps(bk) ==
    {[k \in D |-> OvValue(k)] : D \in {D \in SUBSET OvKeys(bk) : Cardinality(D) <= MaxOvw}}

SerInputs ==
    /\ b \in SerBackends
    /\ url = <<V("octocat"), <<"hello-world", GIT>>>>
    /\ revIn = Some(REV_IN)
    /\ subIn = None
    /\ args \in SeqsUpTo(RawArgPairs, MaxArgs)
    /\ args_str \in SeqsUpTo(StrArgPairs, MaxArgs)
    /\ pc = "write"
    /\ values = Some(<<V("octocat"), V("hello-world")>>)
    /\ rev = REV_IN /\ hash = HASH
    /\ flag \in BOOLEAN
    /\ calls = <<>> /\ err = <<>> /\ stages = <<>>
    /\ fi = 0 /\ rem = EmptyMap /\ out = <<>>
    /\ json = None /\ runs = 1

InitNix ==
    /\ SerInputs
    /\ mode = "nix"
    /\ overwrites \in OverwriteMaps(b)
    /\ jovw = <<>> /\ jovw_str = <<>>
    /\ npc = "header" /\ jpc = "idle"

NextNix == NixHeader \/ NixField \/ NixTail \/ NixClose \/ NixWriteFails

SpecNix == InitNix /\ [][NextNix]_vars

\* --- write_json alone

JOvwPairs == {Pair("rev", V("o-rev")), Pair("sparseCheckout", V("o-sparse"))}
JOvwStrPairs == {Pair("sparseCheckout", V("p-sparse")), Pair("postFetch", V("p-post"))}

InitJson ==
    /\ SerInputs
    /\ mode = "json"
    /\ overwrites = EmptyMap
    /\ jovw \in SeqsUpTo(JOvwPairs, MaxOvw)
    /\ jovw_str \in SeqsUpTo(JOvwStrPairs, MaxOvw)
    /\ npc = "idle" /\ jpc = "ready"

NextJson == WriteJson

SpecJson == InitJson /\ [][NextJson]_vars

\* --- write_nix and write_json on the same fields and the same raw overwrites

\* The entries of an overwrite map as a list, in any order.
ListsOf(m) ==
    {l \in [1..Cardinality(DOMAIN m) -> {Pair(k, m[k]) : k \in DOMAIN m}] : KeysOf(l) = DOMAIN m}

InitBoth ==
    /\ SerInputs
    /\ mode = "nix"
    /\ overwrites \in OverwriteMaps(b)
    /\ jovw \in ListsOf(overwrites)
    /\ jovw_str = <<>>
    /\ npc = "header" /\ jpc = "ready"

NextBoth == NixHeader \/ NixField \/ NixTail \/ NixClose \/ NixWriteFails \/ WriteJson

SpecBoth == InitBoth /\ [][NextBoth]_vars

\* ===================================================================== claims

EndsWithGit(s) == Len(s) >= 1 /\ s[Len(s)] = GIT

\* C10: once get_values has run (any number of times) on a URL, a path of
\* fewer than N segments gave None, surfaced as "failed to parse"; a path of
\* at least N segments gave exactly its first N segments in order, whatever
\* follows them, with one trailing ".git" removed from the N-th and nothing
\* else changed.
C10_Extraction ==
    runs >= 1 =>
        IF Len(url) < b.N
        THEN values = None /\ pc = "failed" /\ err = <<"failed to parse">>
        ELSE /\ IsSome(values)
             /\ pc = "extracted"
             /\ Len(Unwrap(values)) = b.N
             /\ \A i \in 1..(b.N - 1) : Unwrap(values)[i] = url[i]
             /\ IF EndsWithGit(url[b.N])
                THEN Unwrap(values)[b.N] \o <<GIT>> = url[b.N]
                ELSE Unwrap(values)[b.N] = url[b.N]

\* C10 witness: a second run on a URL with a trailing segment, whose first
\* identifier also ends in ".git" (kept) and whose last one does (stripped).
C10_Witness ==
    /\ runs = 2
    /\ b.N = 2
    /\ Len(url) = 3
    /\ EndsWithGit(url[1]) /\ EndsWithGit(url[2])
    /\ IsSome(values)
    /\ Unwrap(values)[1] = url[1]
    /\ Unwrap(values)[2] # url[2]

\* ------------------------------------------------------- pipeline vocabulary

Hashed == \E i \in DOMAIN stages : stages[i] = "hash"
HashCalls == SelectSeq(calls, LAMBDA c : c.cap \in HashCaps)
NoExtraArgs == args = <<>> /\ args_str = <<>>
Failed == pc = "failed" \/ npc = "failed" \/ jpc = "failed"
Finished == pc = "done" \/ npc = "done" \/ jpc = "done"
Unsupported == <<b.NAME, "does not support fetching the latest revision">>
IsPrefix(s, t) == Len(s) <= Len(t) /\ \A i \in DOMAIN s : s[i] = t[i]
Pipeline == <<"extract", "resolve", "hash", "write">>

\* C5 as claimed: a version-control backend uses git_prefetch whenever
\* submodules are requested, flake_prefetch when they are not and there are
\* no extra arguments, and fetch_fod otherwise.
C5_Original ==
    (b.kind = "git" /\ Hashed) =>
        /\ Len(HashCalls) = 1
        /\ HashCalls[1].cap = IF flag THEN "git_prefetch"
                              ELSE IF NoExtraArgs THEN "flake_prefetch"
                              ELSE "fetch_fod"

\* C5 amended: a version-control backend invokes exactly one strategy per
\* call: fetch_fod whenever an extra argument is present; otherwise
\* git_prefetch at the revision, with fetch_submodules = !SUBMODULES_DEFAULT,
\* when submodules are requested, and flake_prefetch when they are not.
C5_GitStrategy ==
    (b.kind = "git" /\ Hashed) =>
        /\ Len(HashCalls) = 1
        /\ HashCalls[1].rev = rev
        /\ HashCalls[1].cap = IF ~NoExtraArgs THEN "fetch_fod"
                              ELSE IF flag THEN "git_prefetch"
                              ELSE "flake_prefetch"
        /\ HashCalls[1].cap = "git_prefetch" => HashCalls[1].recurse = ~b.SUBMODULES_DEFAULT

\* C5 witness: submodules requested together with an extra argument, hashed
\* by fetch_fod.
C5_Witness ==
    /\ b.kind = "git" /\ Hashed /\ flag /\ args # <<>>
    /\ Len(HashCalls) = 1 /\ HashCalls[1].cap = "fetch_fod"

\* C6: for every backend kind, exactly one hashing capability is invoked by
\* the hashing stage and none before it; with an extra argument of either
\* kind it is fetch_fod, whatever the submodules flag; flake_prefetch,
\* git_prefetch and url_prefetch are invoked only when both lists are empty.
C6_FodWithExtraArgs ==
    /\ Len(HashCalls) = (IF Hashed THEN 1 ELSE 0)
    /\ \A i \in DOMAIN HashCalls :
          /\ ~NoExtraArgs => HashCalls[i].cap = "fetch_fod"
          /\ HashCalls[i].cap # "fetch_fod" => NoExtraArgs

\* C6 witness: a direct-download backend given only a string extra argument,
\* with the submodules flag set, hashed by fetch_fod.
C6_Witness ==
    /\ b.kind = "url" /\ Hashed /\ flag /\ args = <<>> /\ args_str # <<>>
    /\ Len(HashCalls) = 1 /\ HashCalls[1].cap = "fetch_fod"

\* C7 as claimed: the stages run in order and a failed invocation, a failed
\* sink write included, has written nothing.
C7_Original ==
    /\ IsPrefix(stages, Pipeline)
    /\ Failed => out = <<>> /\ json = None

\* C7 amended: the stages run strictly in the order extraction, revision
\* resolution, hashing, serialization; a failure of extraction, resolution or
\* hashing ends the invocation in that stage with nothing written and no
\* serializer entered; a failed sink write ends the invocation with an error
\* and nothing is written after it, while what the sink accepted before it
\* stays written.  Nothing is written before the hash is known.
C7_FailFast ==
    /\ IsPrefix(stages, Pipeline)
    /\ (out # <<>> \/ json # None) => Hashed /\ hash = HASH
    /\ (pc = "failed" /\ err # <<"io">>) =>
          /\ out = <<>> /\ json = None /\ npc = "idle" /\ jpc = "idle"
          /\ err = <<"failed to parse">> => stages = <<"extract">> /\ calls = <<>>
          /\ err \in {Unsupported, <<"fetch_rev failed">>} =>
                stages = <<"extract", "resolve">> /\ Len(HashCalls) = 0
          /\ err = <<"prefetch failed">> => stages = <<"extract", "resolve", "hash">>
    /\ Failed => err # <<>> /\ ~Finished /\ ~ENABLED Next

\* C7 witness: write_nix fails on a later write, its first lines written.
C7_Witness ==
    npc = "failed" /\ Len(out) >= 2 /\ err = <<"io">>

\* C8: a caller-supplied revision is the one hashed and serialized and
\* fetch_rev is never invoked; without one, a backend that keeps the default
\* fetch_rev fails with the Unsupported error naming the backend for every
\* identifier tuple, and no hashing capability is invoked.
C8_RevisionResolver ==
    /\ IsSome(revIn) =>
          /\ \A i \in DOMAIN calls : calls[i].cap # "fetch_rev"
          /\ \A i \in DOMAIN HashCalls : HashCalls[i].rev = Unwrap(revIn)
          /\ pc \in {"resolved", "write", "done"} => rev = Unwrap(revIn)
          /\ \A i \in DOMAIN out :
                (out[i].slot = "rev" /\ out[i].quoted) => out[i].value = Unwrap(revIn)
          /\ (IsSome(json) /\ jovw = <<>>) =>
                Unwrap(json).args[b.REV_KEY] = JStr(Unwrap(revIn))
    /\ (~IsSome(revIn) /\ ~b.autoRev) =>
          /\ HashCalls = <<>>
          /\ pc \in {"start", "extracted", "failed"}
          /\ (pc = "failed" /\ IsSome(values)) => err = Unsupported
          /\ out = <<>> /\ json = None

\* C8 witness: no revision given to a backend without auto-resolution, and
\* the invocation has failed as unsupported after a successful extraction.
C8_Witness ==
    /\ ~IsSome(revIn) /\ ~b.autoRev /\ IsSome(values)
    /\ pc = "failed" /\ err = Unsupported
    /\ calls = <<Call("fetch_rev", <<>>, FALSE, FALSE)>>

ExpectedFlag == IF IsSome(subIn) THEN Unwrap(subIn) # b.SUBMODULES_DEFAULT ELSE FALSE

SubmodulesLines == {i \in DOMAIN out : out[i].slot = "submodules"}

\* C9: the submodules flag is (caller value XOR backend default) when the
\* caller gives a value and false when it gives none, and that one value is
\* what the hash strategy receives and what write_nix and write_json act on.
C9_SubmodulesFlag ==
    Hashed =>
        /\ flag = ExpectedFlag
        /\ \A i \in DOMAIN HashCalls : HashCalls[i].submodules = ExpectedFlag
        /\ (npc = "done" /\ IsSome(b.SUBMODULES_KEY)) =>
              (SubmodulesLines # {} <=> ExpectedFlag)
        /\ (npc = "done" /\ ~IsSome(b.SUBMODULES_KEY)) => SubmodulesLines = {}
        /\ jpc = "done" =>
              ("fetchSubmodules" \in DOMAIN Unwrap(json).args
                  <=> (ExpectedFlag /\ IsSome(b.SUBMODULES_KEY)))

\* C9 witness: backend default true and caller value true give flag false,
\* and write_nix has finished without a submodules line.
C9_Witness ==
    /\ b.SUBMODULES_DEFAULT /\ subIn = Some(TRUE)
    /\ Hashed /\ ~flag /\ npc = "done" /\ SubmodulesLines = {}

\* ------------------------------------------------------ write_nix vocabulary

\* The lines written by the canonical statements, and by the trailing loop.
CanonLines == SelectSeq(out, LAMBDA l : l.slot \notin {"open", "close", "overwrites"})
TailLines == SelectSeq(out, LAMBDA l : l.slot = "overwrites")

\* The canonical statements reached so far.
Reached == IF npc = "fields" THEN fi - 1 ELSE IF npc \in {"tail", "done"} THEN Len(Fs) ELSE 0

FirstOcc(F, j) == \A i \in 1..(j - 1) : F[i].key # F[j].key

RECURSIVE Flatten(_)
Flatten(ss) == IF ss = <<>> THEN <<>> ELSE Head(ss) \o Flatten(Tail(ss))

QuotedSlots == {"host", "group", "keys", "rev", "hash", "args_str"}

\* What statement j of the statements F writes according to C1 as claimed:
\* the overwrite, raw, when the caller's mapping has the key (read at the
\* key's first statement); else the computed value, if there is one, between
\* double quotes.
ClaimedLine(F, j) ==
    IF F[j].key \in DOMAIN overwrites /\ FirstOcc(F, j)
    THEN <<Line(F[j].slot, F[j].key, overwrites[F[j].key], FALSE)>>
    ELSE IF F[j].has THEN <<Line(F[j].slot, F[j].key, F[j].value, TRUE)>>
    ELSE <<>>

\* C1 as claimed.
C1_Original ==
    npc \in {"fields", "tail", "done"} =>
        LET F == Fs IN CanonLines = Flatten([j \in 1..Reached |-> ClaimedLine(F, j)])

\* What statement j of the statements F writes according to C1 as amended.
AmendedLine(F, j) ==
    IF F[j].key \in DOMAIN overwrites /\ FirstOcc(F, j)
    THEN <<Line(F[j].slot, F[j].key, overwrites[F[j].key], FALSE)>>
    ELSE IF F[j].has
         THEN <<Line(F[j].slot, F[j].key,
                     IF F[j].slot = "submodules" THEN BoolStr(~b.SUBMODULES_DEFAULT) ELSE F[j].value,
                     F[j].slot \in QuotedSlots)>>
         ELSE <<>>

\* C1 amended: for every canonical statement of write_nix, if the remaining
\* overwrites hold its key (the caller's mapping holds it and no earlier
\* statement had the same key), the overwrite's value is written raw and the
\* entry leaves the remaining overwrites; otherwise the computed value, if
\* any, is written: between double quotes for host, group, identifiers,
\* revision, hash and string extra arguments, raw for raw extra arguments, and
\* as the unquoted boolean !SUBMODULES_DEFAULT for the submodules key.
C1_OverwriteMerger ==
    npc \in {"fields", "tail", "done"} =>
        LET F == Fs
            n == Reached
            done == {F[j].key : j \in 1..n}
        IN /\ CanonLines = Flatten([j \in 1..n |-> AmendedLine(F, j)])
           /\ DOMAIN rem \cap done = {}
           /\ \A k \in DOMAIN rem : k \in DOMAIN overwrites /\ rem[k] = overwrites[k]
           /\ npc = "fields" => DOMAIN rem = DOMAIN overwrites \ done

\* C1 witness: write_nix has finished having written an overwritten revision
\* raw, a raw extra argument raw, the submodules boolean unquoted and the
\* hash between double quotes.
C1_Witness ==
    /\ npc = "done"
    /\ b.REV_KEY \in DOMAIN overwrites
    /\ "sparseCheckout" \notin DOMAIN overwrites
    /\ flag /\ IsSome(b.SUBMODULES_KEY) /\ "fetchSubmodules" \notin DOMAIN overwrites
    /\ \E i \in DOMAIN out : out[i] = Line("rev", b.REV_KEY, overwrites[b.REV_KEY], FALSE)
    /\ \E i \in DOMAIN out : out[i] = Line("args", "sparseCheckout", V("[\"src\"]"), FALSE)
    /\ \E i \in DOMAIN out : out[i] = Line("submodules", "fetchSubmodules", BoolStr(~b.SUBMODULES_DEFAULT), FALSE)
    /\ \E i \in DOMAIN out : out[i] = Line("hash", b.HASH_KEY, HASH, TRUE)

SlotRank(slot) ==
    CASE slot = "open" -> 0
      [] slot = "host" -> 1
      [] slot = "group" -> 2
      [] slot = "keys" -> 3
      [] slot = "rev" -> 4
      [] slot = "hash" -> 5
      [] slot = "submodules" -> 6
      [] slot = "args" -> 7
      [] slot = "args_str" -> 8
      [] slot = "overwrites" -> 9
      [] slot = "close" -> 10

KeysAt(slot) == LET ls == SelectSeq(out, LAMBDA l : l.slot = slot) IN [i \in DOMAIN ls |-> ls[i].key]

InOrder ==
    \A i \in 1..(Len(out) - 1) : SlotRank(out[i].slot) <= SlotRank(out[i + 1].slot)

\* The keys of the fields that have a computed value in this invocation.
ComputedKeys == LET F == Fs IN {F[j].key : j \in {i \in DOMAIN F : F[i].has}}

\* The keys of the canonical statements of this backend and invocation.
StatementKeys == LET F == Fs IN {F[j].key : j \in DOMAIN F}

\* C2 as claimed: canonical order, and every overwrite whose key has no
\* computed value is written by the trailing loop, raw, exactly once.
C2_Original ==
    npc = "done" =>
        /\ InOrder
        /\ \A k \in DOMAIN overwrites \ ComputedKeys :
              /\ Cardinality({i \in DOMAIN out : out[i].key = k}) = 1
              /\ \E i \in DOMAIN out : out[i] = Line("overwrites", k, overwrites[k], FALSE)

\* C2 amended: the fields are written in the order host, group, identifier
\* keys, revision, hash, submodules, raw extra arguments, string extra
\* arguments, each list in its own order; an overwrite of the host key, of
\* "group" or of the backend's declared submodules key is written raw at that
\* field's place even when the field has no computed value; and every
\* overwrite whose key is the key of no canonical statement (host key, group,
\* identifier keys, revision key, hash key, declared submodules key, extra
\* argument keys) is written after all of them, raw, exactly once.
C2_CanonicalOrder ==
    npc = "done" =>
        LET sk == StatementKeys IN
        /\ out[1].slot = "open" /\ out[Len(out)].slot = "close"
        /\ InOrder
        /\ KeysAt("keys") = b.KEYS
        /\ KeysAt("args") = [i \in DOMAIN args |-> args[i].key]
        /\ KeysAt("args_str") = [i \in DOMAIN args_str |-> args_str[i].key]
        /\ \A k \in DOMAIN overwrites \cap sk :
              /\ \E i \in DOMAIN out : /\ out[i].key = k /\ out[i].slot # "overwrites"
                                       /\ out[i].value = overwrites[k] /\ ~out[i].quoted
              /\ \A i \in DOMAIN out : out[i].key = k => out[i].slot # "overwrites"
        /\ \A k \in DOMAIN overwrites \ sk :
              /\ Cardinality({i \in DOMAIN out : out[i].key = k}) = 1
              /\ \E i \in DOMAIN out : out[i] = Line("overwrites", k, overwrites[k], FALSE)
        /\ \A i \in DOMAIN TailLines : TailLines[i].key \in DOMAIN overwrites \ sk

\* C2 witness: a backend without host whose host key is overwritten: the
\* overwrite is written first, at the host's place; an overwrite of no
\* canonical key is written last.
C2_Witness ==
    /\ npc = "done"
    /\ ~IsSome(b.host)
    /\ DOMAIN overwrites = {b.HOST_KEY, "postFetch"}
    /\ args # <<>> /\ args_str # <<>>
    /\ out[2] = Line("host", b.HOST_KEY, overwrites[b.HOST_KEY], FALSE)
    /\ out[Len(out) - 1] = Line("overwrites", "postFetch", overwrites["postFetch"], FALSE)

\* ----------------------------------------------------- write_json vocabulary

JArgs == Unwrap(json).args

JExpression(v) == [t |-> "object", type |-> "expression", value |-> v]

\* C3 as claimed: every raw extra argument and raw overwrite is in `args` as
\* {"type":"expression","value":value}, every string extra argument and
\* string overwrite as a plain string.
C3_Original ==
    jpc = "done" =>
        /\ \A i \in DOMAIN args : JArgs[args[i].key] = JExpression(args[i].value)
        /\ \A i \in DOMAIN jovw : JArgs[jovw[i].key] = JExpression(jovw[i].value)
        /\ \A i \in DOMAIN args_str : JArgs[args_str[i].key] = JStr(args_str[i].value)
        /\ \A i \in DOMAIN jovw_str : JArgs[jovw_str[i].key] = JStr(jovw_str[i].value)

\* The assignments of write_json after the computed fields, in program order.
Writes ==
    [i \in DOMAIN args |-> [key |-> args[i].key, value |-> args[i].value, raw |-> TRUE]]
    \o [i \in DOMAIN args_str |-> [key |-> args_str[i].key, value |-> args_str[i].value, raw |-> FALSE]]
    \o [i \in DOMAIN jovw |-> [key |-> jovw[i].key, value |-> jovw[i].value, raw |-> TRUE]]
    \o [i \in DOMAIN jovw_str |-> [key |-> jovw_str[i].key, value |-> jovw_str[i].value, raw |-> FALSE]]

\* C3 amended: the tag is "nix": in `args`, every key assigned by an extra
\* argument or an overwrite holds the value of the last assignment to it in
\* the order raw extra arguments, string extra arguments, raw overwrites,
\* string overwrites: {"type":"nix","value":value} when that one is raw, the
\* plain string when it is a string; e.g. the raw extra argument
\* ("sparseCheckout", "[\"src\"]"), not assigned again, gives
\* args.sparseCheckout == {"type":"nix","value":"[\"src\"]"}.
C3_JsonTagging ==
    jpc = "done" =>
        LET W == Writes IN
        /\ IsSome(json) /\ Unwrap(json).fetcher = b.NAME
        /\ \A i \in DOMAIN W :
              (\A j \in (i + 1)..Len(W) : W[j].key # W[i].key) =>
                  JArgs[W[i].key] = IF W[i].raw
                                    THEN [t |-> "object", type |-> "nix", value |-> W[i].value]
                                    ELSE [t |-> "string", type |-> "", value |-> W[i].value]

\* C3 witness: the raw extra argument ("sparseCheckout", "[\"src\"]") alone,
\* a raw overwrite of rev and a string overwrite of postFetch.
C3_Witness ==
    /\ jpc = "done"
    /\ args = <<Pair("sparseCheckout", V("[\"src\"]"))>>
    /\ args_str = <<>>
    /\ jovw = <<Pair("rev", V("o-rev"))>>
    /\ jovw_str = <<Pair("postFetch", V("p-post"))>>
    /\ JArgs["sparseCheckout"] = JNix(V("[\"src\"]"))
    /\ JArgs["rev"] = JNix(V("o-rev"))
    /\ JArgs["postFetch"] = JStr(V("p-post"))

\* ------------------------------------------------ both serializers together

TextKeys == {out[i].key : i \in {j \in DOMAIN out : out[j].slot \notin {"open", "close"}}}

TextLinesOf(k) == {i \in DOMAIN out : out[i].slot \notin {"open", "close"} /\ out[i].key = k}

\* The computed submodules boolean: unquoted in the text, a JSON boolean.
ComputedBoolean(k) ==
    /\ \A i \in TextLinesOf(k) : out[i].slot = "submodules"
    /\ k \notin DOMAIN overwrites
    /\ JArgs[k].t = "bool"

\* C4: write_nix and write_json, given the same fields and the same raw
\* overwrites (no string overwrites), write the same set of keys, and a key is
\* raw (unquoted) in the text exactly when it is raw (a tagged object) in the
\* JSON; extra-argument keys may repeat, equal a computed key or be in both
\* lists.
C4_Consistency ==
    (npc = "done" /\ jpc = "done") =>
        /\ TextKeys = DOMAIN JArgs
        /\ \A k \in TextKeys :
              \/ ComputedBoolean(k)
              \/ /\ \A i \in TextLinesOf(k) : ~out[i].quoted
                 /\ JArgs[k].t = "object"
              \/ /\ \A i \in TextLinesOf(k) : out[i].quoted
                 /\ JArgs[k].t = "string"
====
